---------------------------- MODULE Spec2Model ----------------------------
(***************************************************************************)
(* Salary-advance and loan service (src/Backend/main.py).                  *)
(*                                                                         *)
(* Representation of numbers.  The program computes in binary floating     *)
(* point; the model computes the same expressions in exact rational        *)
(* arithmetic on integers:                                                 *)
(*   - request amounts (gross_salary, advance_amount, loan_amount) are     *)
(*     integer cents;                                                      *)
(*   - monthly_salary, max_advance, approved_amount and fee are held in    *)
(*     units of 1/Scale cent, the common denominator of /12, *0.5, *0.05;  *)
(*   - interest_rate is the annual rate in percent; the monthly rate       *)
(*     rate/100/12 is the fraction RateNum/RateDen;                        *)
(*   - inside the amortization loop amounts are held in units of           *)
(*     1/RateDen^term cent, in which every intermediate value is an        *)
(*     integer; the two-decimal roundings are round-half-to-even to whole  *)
(*     cents.                                                              *)
(* The inputs the model draws are those on which the floating-point        *)
(* program and the exact computation return the same cents (whole-dollar   *)
(* salaries and advances, monthly rates that are binary fractions).        *)
(* DataFrame item assignment is taken with its upcasting (pandas 1.x/2.x)  *)
(* behaviour.  uuid.uuid4() is taken as returning an identifier not yet in *)
(* the ledger.  A response is what the served application answers: the    *)
(* value a route function returns is encoded as JSON by the framework,     *)
(* which refuses a non-finite float.                                       *)
(***************************************************************************)
EXTENDS Integers, Sequences, FiniteSets, TLC

VARIABLES
    loans_db,    \* main.py:36  the in-memory ledger: loan_id -> loan record
    clock,       \* the value datetime.now() returns next (main.py:148)
    request,     \* the request being answered
    response,    \* the answer the client gets: HTTP status and body
    calc_in,     \* arguments of a direct call of the loan calculator
    calc_out     \* what that call returned or raised

vars == <<loans_db, clock, request, response, calc_in, calc_out>>

-----------------------------------------------------------------------------
(* Bounds of the model *)

MaxLoans == 2       \* requests are served while the ledger holds fewer records
MaxTerm == 4        \* longest loan term of a direct calculator call

-----------------------------------------------------------------------------
(* Python values *)

None == <<>>                       \* Optional[...] = None
Some(x) == <<x>>
Truthy(opt) == opt # None /\ opt[1] # 0      \* `if request.loan_amount and ...`
Inf == 2147483647                  \* float('inf'): above every amount, never used in arithmetic

Min(x, y) == IF x <= y THEN x ELSE y
Max(x, y) == IF x >= y THEN x ELSE y

RECURSIVE Pow(_, _)
Pow(b, e) == IF e = 0 THEN 1 ELSE b * Pow(b, e - 1)

RECURSIVE GCD(_, _)
GCD(x, y) == IF y = 0 THEN x ELSE GCD(y, x % y)

\* round(x, 2) of x = num/den cents (den > 0): nearest cent, ties to even.
RoundHalfEven(num, den) ==
    LET q == num \div den
        r == num - q * den
    IN  IF 2 * r < den THEN q
        ELSE IF 2 * r > den THEN q + 1
        ELSE IF q % 2 = 0 THEN q ELSE q + 1

\* monthly_rate = rate / 100 / 12 as the reduced fraction RateNum / RateDen
RateNum(rate) == rate \div GCD(rate, 1200)
RateDen(rate) == 1200 \div GCD(rate, 1200)

\* (1 + monthly_rate) ** term overflows the double range (base >= 2 and an
\* exponent of at least DoubleMaxExp; no smaller exponent of the model does).
DoubleMaxExp == 1024
PowOverflows(rate, term) ==
    term >= DoubleMaxExp /\ RateNum(rate) >= RateDen(rate)

-----------------------------------------------------------------------------
(* LoanCalculator *)

\* calculate_compound_interest: principal * (1 + rate/100/12) ** term, in cents
calculate_compound_interest(principal, rate, term_months) ==
    LET a == RateNum(rate)
        b == RateDen(rate)
    IN  IF PowOverflows(rate, term_months) THEN Inf
        ELSE IF term_months >= 0
        THEN RoundHalfEven(principal * Pow(a + b, term_months), Pow(b, term_months))
        ELSE RoundHalfEven(principal * Pow(b, 0 - term_months), Pow(a + b, 0 - term_months))

\* the exception generate_amortization_schedule raises, or "none" (rate >= 0)
AmortizationRaises(principal, rate, term_months) ==
    IF rate = 0 /\ term_months = 0 THEN "ZeroDivisionError"        \* line 68
    ELSE IF rate # 0 /\ PowOverflows(rate, term_months) THEN "OverflowError"  \* line 70
    ELSE IF rate # 0 /\ term_months = 0 THEN "ZeroDivisionError"   \* line 70
    ELSE IF term_months < 1 THEN "ValueError"    \* lines 74-78: columns of unequal length
    ELSE "none"

\* monthly_payment after round(monthly_payment, 2), in cents (term_months >= 1)
MonthlyPayment(principal, rate, term_months) ==
    LET a == RateNum(rate)
        b == RateDen(rate)
        g == Pow(a + b, term_months)
    IN  IF rate = 0
        THEN RoundHalfEven(principal, term_months)
        ELSE RoundHalfEven(principal * a * g, b * (g - Pow(b, term_months)))

\* One pass of the loop body for month i (0-based); amounts in 1/b^term cent.
AmortizationRow(i, balance, payment, a, b, term_months) ==
    LET interest == (balance * a) \div b
        principal_payment == Min(payment - interest, balance)
        left == balance - principal_payment
    IN  IF i = term_months - 1 /\ left > 0
        THEN [Month |-> i + 1,
              Payment |-> principal_payment + left,
              Principal |-> principal_payment + left - interest,
              Interest |-> interest,
              Balance |-> 0]
        ELSE [Month |-> i + 1,
              Payment |-> payment,
              Principal |-> principal_payment,
              Interest |-> interest,
              Balance |-> Max(0, left)]

RECURSIVE AmortizationLoop(_, _, _, _, _, _)
AmortizationLoop(i, balance, payment, a, b, term_months) ==
    IF i >= term_months THEN <<>>
    ELSE LET row == AmortizationRow(i, balance, payment, a, b, term_months)
         IN  <<row>> \o AmortizationLoop(i + 1, row.Balance, payment, a, b, term_months)

\* df[[...]].round(2): every amount to whole cents
RoundRow(row, unit) ==
    [Month |-> row.Month,
     Payment |-> RoundHalfEven(row.Payment, unit),
     Principal |-> RoundHalfEven(row.Principal, unit),
     Interest |-> RoundHalfEven(row.Interest, unit),
     Balance |-> RoundHalfEven(row.Balance, unit)]

\* generate_amortization_schedule, where it returns (term_months >= 1)
generate_amortization_schedule(principal, rate, term_months) ==
    LET a == RateNum(rate)
        b == RateDen(rate)
        unit == Pow(b, term_months)
        payment == MonthlyPayment(principal, rate, term_months) * unit
        rows == AmortizationLoop(0, principal * unit, payment, a, b, term_months)
    IN  [i \in 1..Len(rows) |-> RoundRow(rows[i], unit)]

\* amortization_df.to_csv(index=False): the header line, then one line per row
CsvHeader == <<"Month", "Payment", "Principal", "Interest", "Balance">>
to_csv(schedule) ==
    <<CsvHeader>> \o
    [i \in 1..Len(schedule) |->
        <<schedule[i].Month, schedule[i].Payment, schedule[i].Principal,
          schedule[i].Interest, schedule[i].Balance>>]

-----------------------------------------------------------------------------
(* SalaryNormalizer, EligibilityEvaluator, FeeCalculator *)

Scale == 12 * 2 * 5                 \* sub-cent units per cent
Dollars(n) == n * 100 * Scale       \* a dollar amount in 1/Scale cent

PayFrequencies == {"Weekly", "Bi-Weekly", "Monthly", "Annually"}

\* convert_to_monthly_salary, for a pay_frequency it accepts; in 1/Scale cent
convert_to_monthly_salary(gross_salary, pay_frequency) ==
    CASE pay_frequency = "Weekly" -> gross_salary * 52 * (Scale \div 12)
      [] pay_frequency = "Bi-Weekly" -> gross_salary * 26 * (Scale \div 12)
      [] pay_frequency = "Monthly" -> gross_salary * Scale
      [] pay_frequency = "Annually" -> gross_salary * (Scale \div 12)

min_salary_threshold == 1000

\* eligible = monthly_salary >= min_salary_threshold
EligibleStrict(monthly_salary) == monthly_salary > Dollars(min_salary_threshold)
Eligible(monthly_salary) == monthly_salary >= Dollars(min_salary_threshold)

\* max_advance = monthly_salary * 0.5
MaxAdvance(monthly_salary) == monthly_salary \div 2

\* advance_approved = request.advance_amount <= max_advance
AdvanceApproved(advance_amount, max_advance) == advance_amount * Scale <= max_advance

\* max(10.0, min(50.0, advance_amount * 0.05)) if approved, else 0.0
FeeNoFloor(advance_amount, advance_approved) ==
    IF advance_approved
    THEN Min(Dollars(50), advance_amount * (Scale \div 20))
    ELSE 0
Fee(advance_amount, advance_approved) ==
    IF advance_approved
    THEN Max(Dollars(10), Min(Dollars(50), advance_amount * (Scale \div 20)))
    ELSE 0

-----------------------------------------------------------------------------
(* AdvanceOrchestrator: POST /calculate_advance *)

HTTPException(status_code, detail) ==
    [status |-> status_code, body |-> [detail |-> detail]]
Ok(body) == [status |-> 200, body |-> body]
Outcome(resp, rec) == [response |-> resp, record |-> rec]

\* An exception leaves the try block at line 132 or 134, before the record
\* built from the request is stored at line 157; `except` turns it into
\* the error response.
RaiseBeforeCommit(exc, pending_record) ==
    Outcome(IF exc = "ValueError"
            THEN HTTPException(400, "All arrays must be of the same length")
            ELSE HTTPException(500, "Internal server error"),
            None)

LoanRequested(req) ==
    Truthy(req.loan_amount) /\ Truthy(req.interest_rate) /\ Truthy(req.loan_term)

Message(req, advance_approved, max_advance, fee, total_repayable) ==
    IF advance_approved
    THEN <<"Advance approved! Amount: $", req.advance_amount, ", Fee: $", fee>>
         \o (IF Truthy(total_repayable)
             THEN <<". Loan repayable: $", total_repayable[1], " over ",
                    req.loan_term[1], " months.">>
             ELSE <<>>)
    ELSE <<"Requested advance ($", req.advance_amount,
           ") exceeds maximum allowed ($", max_advance, ").">>

\* The handler's result for one request: the response and, when line 157 is
\* reached, the record it stores under new_id.
calculate_advance(req, export_csv, new_id, now) ==
    IF req.pay_frequency \notin PayFrequencies
    THEN Outcome(HTTPException(400, "Invalid pay_frequency"), None)
    ELSE
    LET monthly_salary == convert_to_monthly_salary(req.gross_salary, req.pay_frequency)
        eligible == Eligible(monthly_salary)
        max_advance == MaxAdvance(monthly_salary)
        advance_approved == AdvanceApproved(req.advance_amount, max_advance)
        approved_amount == IF advance_approved THEN req.advance_amount * Scale ELSE 0
        fee == Fee(req.advance_amount, advance_approved)
        with_loan == advance_approved /\ LoanRequested(req)
        total_repayable ==
            IF with_loan
            THEN Some(calculate_compound_interest(
                          req.loan_amount[1], req.interest_rate[1], req.loan_term[1]))
            ELSE None
        wants_schedule == with_loan /\ (req.include_amortization \/ export_csv)
        raised ==
            IF wants_schedule
            THEN AmortizationRaises(req.loan_amount[1], req.interest_rate[1], req.loan_term[1])
            ELSE "none"
        amortization_schedule ==
            IF wants_schedule /\ raised = "none"
            THEN Some(generate_amortization_schedule(
                          req.loan_amount[1], req.interest_rate[1], req.loan_term[1]))
            ELSE None
        loan_record ==
            [loan_id |-> new_id,
             advance_amount |-> req.advance_amount,
             fee |-> fee,
             timestamp |-> now,
             gross_salary |-> req.gross_salary,
             pay_frequency |-> req.pay_frequency,
             loan_amount |-> req.loan_amount,
             interest_rate |-> req.interest_rate,
             loan_term |-> req.loan_term,
             total_repayable |-> total_repayable,
             amortization_schedule |-> amortization_schedule]
    IN  IF ~eligible
        THEN Outcome(Ok([eligible |-> FALSE,
                         advance_approved |-> FALSE,
                         max_advance |-> 0,
                         approved_amount |-> 0,
                         fee |-> 0,
                         message |-> <<"Ineligible: Monthly salary is below the minimum threshold of $1000.">>]),
                     None)
        ELSE IF raised # "none"
        THEN RaiseBeforeCommit(raised, loan_record)
        ELSE IF wants_schedule /\ export_csv
        THEN Outcome(Ok([csv_data |-> to_csv(amortization_schedule[1]),
                         filename |-> "amortization_schedule.csv"]),
                     None)
        ELSE Outcome(Ok([eligible |-> eligible,
                         advance_approved |-> advance_approved,
                         max_advance |-> max_advance,
                         approved_amount |-> approved_amount,
                         fee |-> fee,
                         total_repayable |-> total_repayable,
                         amortization_schedule |-> amortization_schedule,
                         message |-> Message(req, advance_approved, max_advance,
                                             fee, total_repayable),
                         loan_id |-> IF advance_approved THEN Some(new_id) ELSE None]),
                     IF advance_approved THEN Some(loan_record) ELSE None)

-----------------------------------------------------------------------------
(* The requests the model draws *)

Uuids == 1..MaxLoans                \* values uuid.uuid4() returns

\* uuid.uuid4(): an identifier not yet in the ledger.  Identifiers are opaque,
\* so the model takes the least one not in use.
uuid4(db) == CHOOSE id \in Uuids \ DOMAIN db :
                 \A other \in Uuids \ DOMAIN db : id <= other

FrequencyInputs == PayFrequencies \cup {"Daily"}
AdvanceAmounts == {-500, 10000, 50000, 200000} \* -$5, $100, $500, $2000

\* gross salary (cents) and pay frequency: $12000 at every frequency
\* ($1000 a month when annual), $11999 a year, just below the threshold,
\* and $500 a month
SalaryCases ==
    ({1200000} \X FrequencyInputs)
    \cup {<<1199900, "Annually">>, <<50000, "Monthly">>}

AdvanceRequest(gross, freq, advance, loan, include) ==
    [gross_salary |-> gross,
     pay_frequency |-> freq,
     advance_amount |-> advance,
     loan_amount |-> loan[1],
     interest_rate |-> loan[2],
     loan_term |-> loan[3],
     include_amortization |-> include]

NoLoan == <<None, None, None>>

\* loan_amount (cents), interest_rate (percent a year), loan_term (months)
LoanOptions ==
    { NoLoan,
      <<Some(100000), Some(1200), Some(2)>>,
      <<Some(30000), Some(300), Some(3)>>,
      <<Some(100000), Some(1200), Some(0)>>,
      <<Some(100000), Some(1200), Some(-1)>>,
      <<Some(100000), Some(1200), Some(DoubleMaxExp)>>,
      <<Some(100000), Some(0), Some(2)>>,
      <<Some(100000), None, Some(2)>> }

\* a call: the request body and the export_csv query parameter
Call(req, export_csv) == [req |-> req, export_csv |-> export_csv]

Calls ==
    { Call(AdvanceRequest(sf[1], sf[2], a, NoLoan, FALSE), FALSE) :
        sf \in SalaryCases, a \in AdvanceAmounts }
    \cup
    { Call(AdvanceRequest(400000, "Monthly", 100000, l, i), x) :
        l \in LoanOptions, i \in BOOLEAN, x \in BOOLEAN }
    \cup
    { Call(AdvanceRequest(400000, "Monthly", 300000,
                          <<Some(100000), Some(1200), Some(2)>>, TRUE), x) :
        x \in BOOLEAN }

\* principal (cents), rate, term of a direct call of the loan calculator
Principals == {1, 9, 11, 100, 300, 400, 500}
Rates == {0, 75, 300, 1200}
LoanInputs ==
    { in \in [principal : Principals, rate : Rates, term : 0..MaxTerm] :
        in.rate = 0 => in.principal % 100 = 0 }

-----------------------------------------------------------------------------
(* The service *)

NoRequest == [op |-> "none"]
NoResponse == [status |-> 0, body |-> <<>>]
Idle == [principal |-> 0, rate |-> 0, term |-> 0]
NotRun == [total |-> None, schedule |-> None, raised |-> "none"]

Init ==
    /\ loans_db = <<>>
    /\ clock = 0
    /\ request = NoRequest
    /\ response = NoResponse
    /\ calc_in = Idle
    /\ calc_out = NotRun

\* json.dumps(content, allow_nan=False) accepts the returned body: of the
\* floats a body or a record holds, only total_repayable can be infinite
JsonCompliant(body) ==
    ~("total_repayable" \in DOMAIN body /\ body.total_repayable = Some(Inf))

\* What the route (@app.post, @app.get) answers for the function's result:
\* an HTTPException keeps its status and detail; a returned body is encoded
\* as JSON, and the ValueError of a body that is not JSON compliant, raised
\* after the function has returned, becomes the plain-text 500 of the server.
Serve(resp) ==
    IF resp.status = 200 /\ ~JsonCompliant(resp.body)
    THEN [status |-> 500, body |-> [text |-> "Internal Server Error"]]
    ELSE resp

\* loans_db[loan_id] = loan_record
StoreLoan(db, loan_id, loan_record) ==
    [id \in DOMAIN db \cup {loan_id} |->
        IF id = loan_id THEN loan_record ELSE db[id]]

\* POST /calculate_advance
CalculateAdvance ==
    /\ Cardinality(DOMAIN loans_db) < MaxLoans
    /\ \E call \in Calls :
        LET new_id == uuid4(loans_db)
            out == calculate_advance(call.req, call.export_csv, new_id, clock)
        IN  /\ request' = [op |-> "calculate_advance", req |-> call.req,
                           export_csv |-> call.export_csv]
            /\ response' = Serve(out.response)
            /\ IF out.record # None
               THEN /\ loans_db' = StoreLoan(loans_db, new_id, out.record[1])
                    /\ clock' = clock + 1
               ELSE UNCHANGED <<loans_db, clock>>
    /\ UNCHANGED <<calc_in, calc_out>>

\* GET /loan/{loan_id}
GetLoan ==
    /\ \E loan_id \in Uuids :
        /\ request' = [op |-> "get_loan", loan_id |-> loan_id]
        /\ response' = Serve(IF loan_id \notin DOMAIN loans_db
                             THEN HTTPException(404, "Loan not found")
                             ELSE Ok(loans_db[loan_id]))
    /\ UNCHANGED <<loans_db, clock, calc_in, calc_out>>

\* GET /health
HealthCheck ==
    /\ request' = [op |-> "health"]
    /\ response' = Serve(Ok([status |-> "healthy"]))
    /\ UNCHANGED <<loans_db, clock, calc_in, calc_out>>

Next == CalculateAdvance \/ GetLoan \/ HealthCheck

Spec == Init /\ [][Next]_vars

-----------------------------------------------------------------------------
(* The loan calculator called directly *)

InitLoan ==
    /\ loans_db = <<>>
    /\ clock = 0
    /\ request = NoRequest
    /\ response = NoResponse
    /\ calc_in \in LoanInputs
    /\ calc_out = NotRun

\* total = calculate_compound_interest(principal, rate, term)
CompoundInterest ==
    /\ calc_out.total = None
    /\ calc_out' = [calc_out EXCEPT !.total =
            Some(calculate_compound_interest(calc_in.principal, calc_in.rate, calc_in.term))]
    /\ UNCHANGED <<loans_db, clock, request, response, calc_in>>

\* schedule = generate_amortization_schedule(principal, rate, term)
Amortize ==
    /\ calc_out.schedule = None
    /\ calc_out.raised = "none"
    /\ LET raised == AmortizationRaises(calc_in.principal, calc_in.rate, calc_in.term)
       IN  calc_out' =
             IF raised # "none"
             THEN [calc_out EXCEPT !.raised = raised]
             ELSE [calc_out EXCEPT !.schedule =
                     Some(generate_amortization_schedule(
                              calc_in.principal, calc_in.rate, calc_in.term))]
    /\ UNCHANGED <<loans_db, clock, request, response, calc_in>>

NextLoan == CompoundInterest \/ Amortize

SpecLoan == InitLoan /\ [][NextLoan]_vars

-----------------------------------------------------------------------------
(* Vocabulary of the properties, stated on requests and responses alone *)

IsCalc == request.op = "calculate_advance"

\* twelfths of the gross salary that make one month's salary
MonthlyTwelfths(freq) ==
    CASE freq = "Weekly" -> 52
      [] freq = "Bi-Weekly" -> 26
      [] freq = "Monthly" -> 12
      [] freq = "Annually" -> 1

\* the monthly-normalised salary is at least $1000 (amounts in cents)
SalaryEligible(req) ==
    req.gross_salary * MonthlyTwelfths(req.pay_frequency) >= 12 * 100000

\* half the monthly salary, in 1/Scale cent
HalfMonthly(req) ==
    req.gross_salary * MonthlyTwelfths(req.pay_frequency) * (Scale \div 24)

\* the request is eligible and asks for no more than half the monthly salary
AdvanceIsApproved(req) ==
    /\ req.pay_frequency \in PayFrequencies
    /\ SalaryEligible(req)
    /\ req.advance_amount * 24 <=
           req.gross_salary * MonthlyTwelfths(req.pay_frequency)

IsDecision(resp) == resp.status = 200 /\ "eligible" \in DOMAIN resp.body
IsCsv(resp) == resp.status = 200 /\ DOMAIN resp.body = {"csv_data", "filename"}
HasLoanId(resp) ==
    /\ IsDecision(resp)
    /\ "loan_id" \in DOMAIN resp.body
    /\ resp.body.loan_id # None

LoanFieldsGiven(req) ==
    /\ req.loan_amount # None /\ req.loan_amount[1] # 0
    /\ req.interest_rate # None /\ req.interest_rate[1] # 0
    /\ req.loan_term # None /\ req.loan_term[1] # 0

RECURSIVE SumPrincipal(_)
SumPrincipal(rows) ==
    IF rows = <<>> THEN 0 ELSE Head(rows).Principal + SumPrincipal(Tail(rows))

-----------------------------------------------------------------------------
(* Properties *)

\* C1: every completed request whose advance is approved, whatever its loan
\* fields and flags, adds exactly one record to loans_db and returns its
\* loan_id; every request that ends ineligible or rejected adds no record and
\* returns no loan_id.
C1_EveryApprovalRecorded ==
    [][(request'.op = "calculate_advance" /\ response'.status = 200) =>
        IF AdvanceIsApproved(request'.req)
        THEN /\ HasLoanId(response')
             /\ response'.body.loan_id[1] \notin DOMAIN loans_db
             /\ DOMAIN loans_db' = DOMAIN loans_db \cup {response'.body.loan_id[1]}
        ELSE /\ ~HasLoanId(response')
             /\ loans_db' = loans_db]_vars

\* C2: every decision has 0 <= approved_amount <= max_advance.
C2_ApprovedAmountWithinMax ==
    (IsCalc /\ IsDecision(response)) =>
        /\ 0 <= response.body.approved_amount
        /\ response.body.approved_amount <= response.body.max_advance

\* C3: the fee of a decision is 0 when the advance is not approved, and
\* otherwise 5% of advance_amount clamped to [$10, $50]: $100 gives $10,
\* $500 gives $25, $2000 gives $50.
C3_FeeClamped ==
    (IsCalc /\ IsDecision(response)) =>
        LET amount == request.req.advance_amount
            pct == amount * (Scale \div 20)
            fee == response.body.fee
        IN  IF ~response.body.advance_approved
            THEN fee = 0
            ELSE /\ Dollars(10) <= fee /\ fee <= Dollars(50)
                 /\ pct < Dollars(10) => fee = Dollars(10)
                 /\ pct > Dollars(50) => fee = Dollars(50)
                 /\ (Dollars(10) <= pct /\ pct <= Dollars(50)) => fee = pct
                 /\ amount = 10000 => fee = Dollars(10)
                 /\ amount = 50000 => fee = Dollars(25)
                 /\ amount = 200000 => fee = Dollars(50)

\* an approved $500 advance carries the unclamped fee of $25
C3_Witness ==
    /\ IsCalc /\ IsDecision(response)
    /\ response.body.advance_approved
    /\ request.req.advance_amount = 50000
    /\ response.body.fee = Dollars(25)

\* C4: a decision reports eligible exactly when the monthly-normalised salary
\* is at least $1000; when ineligible max_advance = 0 and advance_approved is
\* false; when eligible max_advance is half the monthly salary and
\* advance_approved is false exactly when advance_amount > max_advance.
C4_EligibilityAndMaxAdvance ==
    (IsCalc /\ IsDecision(response)) =>
        LET req == request.req
            body == response.body
        IN  /\ body.eligible <=> SalaryEligible(req)
            /\ ~body.eligible =>
                 body.max_advance = 0 /\ ~body.advance_approved
            /\ body.eligible =>
                 /\ body.max_advance = HalfMonthly(req)
                 /\ ~body.advance_approved <=>
                        req.advance_amount * Scale > body.max_advance

\* an annual salary of $12000 is exactly $1000 a month: eligible, half is $500
C4_Witness ==
    /\ IsCalc /\ IsDecision(response)
    /\ request.req.pay_frequency = "Annually"
    /\ request.req.gross_salary = 1200000
    /\ request.req.advance_amount = 200000
    /\ response.body.eligible
    /\ response.body.max_advance = Dollars(500)
    /\ ~response.body.advance_approved

\* C5: a stored record is never changed, overwritten or removed; every record
\* is stored under its own identifier; get_loan answers with the stored
\* record for an identifier of the ledger and with 404 for any other.
C5_LedgerRoundTrip ==
    /\ [][\A id \in DOMAIN loans_db :
            id \in DOMAIN loans_db' /\ loans_db'[id] = loans_db[id]]_vars
    /\ [](\A id \in DOMAIN loans_db : loans_db[id].loan_id = id)
    /\ [](request.op = "get_loan" =>
            IF request.loan_id \in DOMAIN loans_db
            THEN response = [status |-> 200, body |-> loans_db[request.loan_id]]
            ELSE response.status = 404)

\* C6: a returned schedule has term_months rows numbered 1..term_months, no
\* negative Balance, Balances that never increase from the principal on, and
\* a last Balance of 0.
C6_ScheduleBalances ==
    (calc_out.schedule # None /\ calc_in.term >= 1) =>
        LET rows == calc_out.schedule[1]
        IN  /\ Len(rows) = calc_in.term
            /\ \A i \in 1..Len(rows) :
                 /\ rows[i].Month = i
                 /\ rows[i].Balance >= 0
                 /\ rows[i].Balance <=
                      (IF i = 1 THEN calc_in.principal ELSE rows[i - 1].Balance)
            /\ rows[Len(rows)].Balance = 0

\* C7: the Principal entries of a returned schedule add up to the original
\* principal within one cent.
C7_PrincipalSum ==
    (calc_out.schedule # None /\ calc_in.term >= 1) =>
        LET total == SumPrincipal(calc_out.schedule[1])
        IN  /\ total - calc_in.principal <= 1
            /\ calc_in.principal - total <= 1

\* C8: an approved request that gives loan_amount and interest_rate with a
\* loan_term <= 0 is answered with the client error, never with a decision.
C8_NonPositiveTermRejected ==
    (/\ IsCalc
     /\ AdvanceIsApproved(request.req)
     /\ Truthy(request.req.loan_amount)
     /\ Truthy(request.req.interest_rate)
     /\ request.req.loan_term # None
     /\ request.req.loan_term[1] <= 0) =>
        response.status = 400

\* C9: a request that ends in an error leaves the ledger as it was,
\* with status 400 exactly for a pay_frequency outside the four and 500 for
\* every other failure.
C9_ErrorStatusByFrequency ==
    [][(request'.op = "calculate_advance" /\ response'.status # 200) =>
        /\ loans_db' = loans_db
        /\ response'.status =
             (IF request'.req.pay_frequency \notin PayFrequencies
              THEN 400 ELSE 500)]_vars

\* C10: export_csv on an approved request is answered with nothing but
\* csv_data and the filename amortization_schedule.csv, the CSV being the
\* header and one row, numbered by its month, per loan_term month.  Stated on
\* the requests that give loan_amount, interest_rate and loan_term, all
\* non-zero: the ones for which a schedule is computed.
C10_ExportWithLoanIsCsv ==
    (/\ IsCalc /\ request.export_csv /\ AdvanceIsApproved(request.req)
     /\ LoanFieldsGiven(request.req)) =>
        /\ IsCsv(response)
        /\ response.body.filename = "amortization_schedule.csv"
        /\ Head(response.body.csv_data) =
             <<"Month", "Payment", "Principal", "Interest", "Balance">>
        /\ Len(response.body.csv_data) = 1 + request.req.loan_term[1]
        /\ \A m \in 1..request.req.loan_term[1] :
             response.body.csv_data[m + 1][1] = m

=============================================================================
